---- MODULE Spec2Model ----
(***************************************************************************)
(* Model of wjc.py: the fantasy pool scorer.  Rosters are loaded from      *)
(* submission files, two statistics record sets (skaters, goaltenders) are *)
(* fetched and aggregated into the teams, the teams are ranked and the     *)
(* leaderboard is written.                                                 *)
(*                                                                         *)
(* Strings are sequences of characters; a character is a one-token string. *)
(* "e_acute" / "E_acute" are the precomposed accented letters, "acute" is  *)
(* the combining mark NFD splits them into.                                *)
(* Scores are exact numbers counted in thousandths of a point (1.5 points  *)
(* is 1500, 0.15 is 150); binary floating point rounding is not modelled.  *)
(***************************************************************************)
EXTENDS Integers, Sequences, FiniteSets, TLC

VARIABLES pc, files, teams, nrec, cur, skResp, glResp, output, snapshot, latest,
          arg, res

vars == <<pc, files, teams, nrec, cur, skResp, glResp, output, snapshot, latest,
          arg, res>>

\* ---------------------------------------------------------------- bounds
MaxFiles == 2
MaxRecords == 2
MaxLen == 3
MaxStat == 1

\* ------------------------------------------------------- optional values
\* Python None against a present value.
None == [some |-> FALSE]
Some(x) == [some |-> TRUE, v |-> x]

\* ------------------------------------------------------------ characters
UpperCase == <<"A", "B", "C", "D", "E", "F", "G", "H", "I", "J", "K", "L", "M",
               "N", "O", "P", "Q", "R", "S", "T", "U", "V", "W", "X", "Y", "Z">>
LowerCase == <<"a", "b", "c", "d", "e", "f", "g", "h", "i", "j", "k", "l", "m",
               "n", "o", "p", "q", "r", "s", "t", "u", "v", "w", "x", "y", "z">>

Whitespace == {" ", "\t"}
NonAscii == {"acute", "e_acute", "E_acute"}

IsLetter(c) ==
    \/ \E i \in 1..Len(UpperCase) : c = UpperCase[i] \/ c = LowerCase[i]
    \/ c \in {"e_acute", "E_acute"}

\* str.lower() on one character
LowerChar(c) ==
    IF \E i \in 1..Len(UpperCase) : UpperCase[i] = c
    THEN LowerCase[CHOOSE i \in 1..Len(UpperCase) : UpperCase[i] = c]
    ELSE IF c = "E_acute" THEN "e_acute" ELSE c

\* str.upper() on one character
UpperChar(c) ==
    IF \E i \in 1..Len(LowerCase) : LowerCase[i] = c
    THEN UpperCase[CHOOSE i \in 1..Len(LowerCase) : LowerCase[i] = c]
    ELSE IF c = "e_acute" THEN "E_acute" ELSE c

Lower(s) == [i \in 1..Len(s) |-> LowerChar(s[i])]

\* str.title(): first letter of every run of letters upper, the rest lower
Title(s) ==
    [i \in 1..Len(s) |->
        IF i = 1 \/ ~IsLetter(s[i - 1]) THEN UpperChar(s[i]) ELSE LowerChar(s[i])]

\* str.strip(): drop leading and trailing whitespace
RECURSIVE LStrip(_)
LStrip(s) ==
    IF s # <<>> /\ Head(s) \in Whitespace THEN LStrip(Tail(s)) ELSE s

RECURSIVE RStrip(_)
RStrip(s) ==
    IF s # <<>> /\ s[Len(s)] \in Whitespace
    THEN RStrip(SubSeq(s, 1, Len(s) - 1))
    ELSE s

Strip(s) == RStrip(LStrip(s))

\* str.replace(c, ""): drop every occurrence of the character c
Replace(s, c) == SelectSeq(s, LAMBDA x : x # c)

\* unicodedata.normalize("NFD", s): split precomposed letters
RECURSIVE NFD(_)
NFD(s) ==
    IF s = <<>> THEN <<>>
    ELSE (CASE Head(s) = "e_acute" -> <<"e", "acute">>
            [] Head(s) = "E_acute" -> <<"E", "acute">>
            [] OTHER -> <<Head(s)>>) \o NFD(Tail(s))

\* s.encode("ascii", "ignore").decode("ascii")
AsciiIgnore(s) == SelectSeq(s, LAMBDA x : x \notin NonAscii)

clean(player_name) ==
    LET normalized == NFD(player_name)
        ascii_text == AsciiIgnore(normalized)
    IN  Replace(Replace(Replace(Lower(Strip(ascii_text)), " "), "-"), "'")

\* ------------------------------------------------------------- scoring
ForwardCodes == {"C", "RW", "LW", "F", "Winger"}
DefenseCodes == {"D", "LD", "RD"}

\* `position in ("G")`: ("G") is the string "G", so `in` is the substring
\* test, which holds of "G" and of the empty string.
InG(position) == position \in {"", "G"}

\* int(player.get(field, 0))
Get(field) == IF field.some THEN field.v ELSE 0

\* Returns the pair (score, bucket) as a record with tuple = TRUE, or the
\* argument itself (tuple = FALSE) for a position in none of the three tests.
assign_player_scores(player) ==
    IF player.position \in ForwardCodes
    THEN [tuple |-> TRUE, position |-> "F",
          score |-> Get(player.goals) * 1500 + Get(player.assists) * 1000]
    ELSE IF player.position \in DefenseCodes
    THEN [tuple |-> TRUE, position |-> "D",
          score |-> Get(player.goals) * 3000 + Get(player.assists) * 2000]
    ELSE IF InG(player.position)
    THEN [tuple |-> TRUE, position |-> "G",
          score |-> (Get(player.saves) * 150 + Get(player.wins) * 5000
                     + Get(player.shutouts) * 5000) - Get(player.losses) * 3000]
    ELSE [tuple |-> FALSE]

\* len(stats): the number of keys of the stats object.  position, firstName
\* and lastName are keys of every record of the model.
NumKeys(player) ==
    3 + Cardinality({f \in {"goals", "assists", "saves", "wins", "shutouts", "losses",
                            "competitor"} : player[f].some})

\* ------------------------------------------------------- roster loading
TrueStr == <<"t", "r", "u", "e">>

NewEntry(key, first, last, country) ==
    [key |-> key, first_name |-> first, last_name |-> last, country |-> country,
     score |-> None, found |-> FALSE]

HasKey(players, key) == \E i \in 1..Len(players) : players[i].key = key

\* The row loop of one submission: acc is (players, country_goalie).
RECURSIVE ReadRows(_, _)
ReadRows(rows, acc) ==
    IF rows = <<>> THEN acc
    ELSE LET row == Head(rows)
             country == Lower(Strip(row.country))
             is_goalie == Lower(Strip(row.is_goalie)) = TrueStr
             first == Lower(Strip(row.firstName))
             last == Lower(Strip(row.lastName))
             player_key == clean(first \o last)
         IN  IF is_goalie
             THEN ReadRows(Tail(rows), [acc EXCEPT !.country_goalie = Some(country)])
             ELSE IF HasKey(acc.players, player_key)
             THEN ReadRows(Tail(rows), acc)
             ELSE ReadRows(Tail(rows),
                           [acc EXCEPT !.players =
                               Append(@, NewEntry(player_key, first, last, country))])

\* A file name is its dot-separated parts; endswith(".csv")
IsCsv(name) == Len(name) >= 2 /\ name[Len(name)] = "csv"

NewTeam(file) ==
    LET acc == ReadRows(file.rows, [players |-> <<>>, country_goalie |-> None])
    IN  [submission |-> file.name[1],
         players |-> acc.players,
         score |-> 0,
         country_goalie |-> acc.country_goalie,
         goalie_score |-> None,
         goalie_found |-> FALSE]

\* ---------------------------------------------------------- aggregation
CreditGoalieCaseSensitive(team, competitor, score) ==
    IF team.country_goalie = Some(competitor)
    THEN [team EXCEPT !.goalie_score = Some((IF @.some THEN @.v ELSE 0) + score),
                      !.score = @ + score,
                      !.goalie_found = TRUE]
    ELSE team

\* Lines 127-133 for one team: credit a goalie record to the team when its
\* goalie country is the lower-cased competitor identifier.
CreditGoalie(team, competitor, score) ==
    IF team.country_goalie = Some(Lower(competitor))
    THEN [team EXCEPT !.goalie_score = Some((IF @.some THEN @.v ELSE 0) + score),
                      !.score = @ + score,
                      !.goalie_found = TRUE]
    ELSE team

CreditEntryOverwrite(entry, score) ==
    [entry EXCEPT !.score = Some(score), !.found = TRUE]

CreditEntryNoFlag(entry, score) ==
    [entry EXCEPT !.score = Some((IF @.some THEN @.v ELSE 0) + score)]

\* Lines 144-148 for one roster entry
CreditEntry(entry, score) ==
    [entry EXCEPT !.score = Some((IF @.some THEN @.v ELSE 0) + score),
                  !.found = TRUE]

CreditSkaterEntryOnly(team, player_name, score) ==
    IF HasKey(team.players, player_name)
    THEN [team EXCEPT
            !.players = [i \in 1..Len(@) |->
                            IF @[i].key = player_name
                            THEN CreditEntry(@[i], score) ELSE @[i]]]
    ELSE team

\* Lines 142-148 for one team: credit a skater record to the roster entry
\* stored under player_name, and to the team.
CreditSkater(team, player_name, score) ==
    IF HasKey(team.players, player_name)
    THEN [team EXCEPT
            !.players = [i \in 1..Len(@) |->
                            IF @[i].key = player_name
                            THEN CreditEntry(@[i], score) ELSE @[i]],
            !.score = @ + score]
    ELSE team

\* `if not competitor`: the identifier is missing or the empty string
NoCompetitor(stats) == ~stats.competitor.some \/ stats.competitor.v = <<>>

\* The body of the record loop (lines 119-148) for a record whose stats
\* resolved to a (score, position) pair.
ScoreRecord(ts, stats) ==
    LET r == assign_player_scores(stats)
    IN  IF r.position = "G"
        THEN IF NoCompetitor(stats) THEN ts
             ELSE [i \in 1..Len(ts) |-> CreditGoalie(ts[i], stats.competitor.v, r.score)]
        ELSE LET player_name == clean(stats.firstName \o stats.lastName)
             IN  [i \in 1..Len(ts) |-> CreditSkater(ts[i], player_name, r.score)]

\* ---------------------------------------------------------- leaderboard
\* round(x, 2) on a score counted in thousandths: to the nearest ten,
\* a tie to the even hundredth.
Round2(x) ==
    LET q == x \div 10
        r == x % 10
    IN  IF r < 5 THEN 10 * q
        ELSE IF r > 5 THEN 10 * (q + 1)
        ELSE IF q % 2 = 0 THEN 10 * q ELSE 10 * (q + 1)

\* teams.sort(key=lambda x: x["score"], reverse=True)
TeamGt(a, b) == a.score > b.score

\* an ascending sort read backwards: descending, equal teams reversed
SortTeamsTiesReversed(ts) ==
    LET pos(i) == 1 + Cardinality({j \in 1..Len(ts) : ts[j].score > ts[i].score})
                    + Cardinality({j \in (i + 1)..Len(ts) : ts[j].score = ts[i].score})
    IN  [p \in 1..Len(ts) |-> ts[CHOOSE i \in 1..Len(ts) : pos(i) = p]]

\* list.sort(reverse=True): descending, teams of equal score keep their
\* original order.  pos(i) is the place the i-th team ends up at.
SortTeams(ts) ==
    LET pos(i) == 1 + Cardinality({j \in 1..Len(ts) : TeamGt(ts[j], ts[i])})
                    + Cardinality({j \in 1..(i - 1) :
                                     ~TeamGt(ts[j], ts[i]) /\ ~TeamGt(ts[i], ts[j])})
    IN  [p \in 1..Len(ts) |-> ts[CHOOSE i \in 1..Len(ts) : pos(i) = p]]

\* The breakdown sort key (lines 216-220) of one row
RowKey(x) ==
    <<x.score.some /\ x.score.v > 0,
      x.score.some /\ x.score.v = 0,
      IF x.score.some THEN x.score.v ELSE -1000>>

\* Python tuple comparison of two row keys, False < True
BoolGt(a, b) == a /\ ~b

RowGt(x, y) ==
    LET k == RowKey(x)
        l == RowKey(y)
    IN  \/ BoolGt(k[1], l[1])
        \/ k[1] = l[1] /\ BoolGt(k[2], l[2])
        \/ k[1] = l[1] /\ k[2] = l[2] /\ k[3] > l[3]

PlayerRow(p) ==
    [name |-> Title(p.first_name) \o <<" ">> \o Title(p.last_name),
     score |-> IF p.found THEN Some(Round2(p.score.v)) ELSE None]

\* `if team["country_goalie"]`: a goalie country was picked and is not ""
HasGoaliePick(team) == team.country_goalie.some /\ team.country_goalie.v # <<>>

GoalieRow(team) ==
    [name |-> <<"G", "o", "a", "l", "i", "e", " ", "(">>
                \o Title(team.country_goalie.v) \o <<")">>,
     score |-> IF team.goalie_found THEN Some(Round2(team.goalie_score.v)) ELSE None]

\* sorted(rows, key=..., reverse=True): descending by key, rows of equal
\* key keep their original order
SortRows(rows) ==
    LET pos(i) == 1 + Cardinality({j \in 1..Len(rows) : RowGt(rows[j], rows[i])})
                    + Cardinality({j \in 1..(i - 1) :
                                     ~RowGt(rows[j], rows[i]) /\ ~RowGt(rows[i], rows[j])})
    IN  [p \in 1..Len(rows) |-> rows[CHOOSE i \in 1..Len(rows) : pos(i) = p]]

Breakdown(team) ==
    SortRows([i \in 1..Len(team.players) |-> PlayerRow(team.players[i])]
               \o (IF HasGoaliePick(team) THEN <<GoalieRow(team)>> ELSE <<>>))

Leaderboard(ts) ==
    [idx \in 1..Len(ts) |->
        [rank |-> idx,
         name |-> ts[idx].submission,
         score |-> Round2(ts[idx].score),
         players |-> Breakdown(ts[idx])]]

\* --------------------------------------------------------------- inputs
Row(first, last, country, is_goalie) ==
    [firstName |-> first, lastName |-> last, country |-> country,
     is_goalie |-> is_goalie]

False == <<"f", "a", "l", "s", "e">>

\* The submissions directory holds some of these files.
FilePool ==
    { [name |-> <<"ann", "csv">>,
       rows |-> << Row(<<"J", "o">>, <<"D", "o", "e">>, <<"C", "A", "N">>, False),
                   Row(<<>>, <<>>, <<"U", "S", "A", " ">>, <<" ", "T", "R", "U", "E">>) >>],
      [name |-> <<"bob", "csv">>,
       rows |-> << Row(<<" ", "J", "O">>, <<"D", "O", "E", " ">>, <<"c", "a", "n">>, <<"F", "a", "l", "s", "e">>),
                   Row(<<"Z", "o", "E_acute">>, <<>>, <<"F", "R", "A">>, False),
                   Row(<<"j", "o">>, <<"d", "-", "o", "e">>, <<"f", "i", "n">>, False),
                   Row(<<>>, <<>>, <<"u", "s", "a">>, <<"T", "r", "u", "e">>) >>],
      [name |-> <<"cy", "csv">>,
       rows |-> << Row(<<"A", "l">>, <<"O", "'", "R", "r">>, <<"S", "W", "E">>, False),
                   Row(<<"J", "o">>, <<"D", "o", "e">>, <<"C", "A", "N">>, <<>>) >>],
      [name |-> <<"dee", "v2", "csv">>,
       rows |-> << Row(<<>>, <<>>, <<"U", "S", "A">>, TrueStr),
                   Row(<<>>, <<>>, <<"F", "i", "n">>, TrueStr) >>],
      [name |-> <<"notes", "txt">>, rows |-> <<>>] }

RECURSIVE Listings(_)
Listings(n) ==
    IF n = 0 THEN {<<>>}
    ELSE Listings(n - 1) \cup
         {Append(l, f) : l \in {l \in Listings(n - 1) : Len(l) = n - 1},
                         f \in FilePool}

Distinct(l) == \A i, j \in 1..Len(l) : i # j => l[i].name # l[j].name

Stats(position, first, last, goals, assists, saves, wins, shutouts, losses, competitor) ==
    [position |-> position, firstName |-> first, lastName |-> last,
     goals |-> goals, assists |-> assists, saves |-> saves, wins |-> wins,
     shutouts |-> shutouts, losses |-> losses, competitor |-> competitor]

\* The records a response can carry; a record with stats = None is one
\* without a usable "stats" object.
RecordPool ==
    { [stats |-> Some(Stats("F", <<"J", "o">>, <<"D", "o", "e">>,
                            Some(1), Some(2), None, None, None, None, None))],
      [stats |-> Some(Stats("LD", <<"A", "l">>, <<"O", "r", "r">>,
                            Some(1), None, None, None, None, None, None))],
      [stats |-> Some(Stats("Winger", <<"Z", "o", "e_acute">>, <<>>,
                            Some(0), None, None, None, None, None, None))],
      [stats |-> Some(Stats("G", <<"K", "i">>, <<"P", "o">>,
                            None, None, Some(10), Some(1), Some(0), Some(0),
                            Some(<<"U", "S", "A">>)))],
      [stats |-> Some(Stats("G", <<"S", "y">>, <<"R", "e">>,
                            None, None, None, None, None, Some(1),
                            Some(<<"u", "s", "a">>)))],
      [stats |-> Some(Stats("G", <<"J", "o">>, <<"D", "o", "e">>,
                            None, None, Some(1), None, None, None, None))],
      [stats |-> Some(Stats("G", <<"N", "o">>, <<"I", "d">>,
                            None, None, Some(1), None, None, None, Some(<<>>)))],
      [stats |-> Some(Stats("", <<"J", "o">>, <<"D", "o", "e">>,
                            Some(1), None, None, Some(1), None, None,
                            Some(<<"F", "I", "N">>)))],
      [stats |-> Some(Stats("X", <<"J", "o">>, <<"D", "o", "e">>,
                            Some(1), Some(1), None, None, None, None, None))],
      [stats |-> None] }

\* What a fetch can come back with:
\*   transport  requests.get raises
\*   not_json   the body is not JSON, .json() raises
\*   scalar     JSON null, number or boolean: not iterable at line 118
\*   object     a non-empty JSON object or string: iterating yields strings,
\*              player["stats"] raises
\*   empty      the JSON object {} or the string "": nothing to iterate
\*   list       a JSON array of records
ResponseKinds == {"transport", "not_json", "scalar", "object", "empty", "list"}
Raising == {"transport", "not_json", "scalar", "object"}
NotRecordList == ResponseKinds \ {"list"}

\* -------------------------------------------------------------- actions
Init ==
    /\ pc = "list"
    /\ files \in {l \in Listings(MaxFiles) : Distinct(l)}
    /\ teams = <<>>
    /\ nrec = 0
    /\ cur = None
    /\ skResp = "none"
    /\ glResp = "none"
    /\ output = <<>>
    /\ snapshot = None
    /\ latest = None
    /\ arg = None
    /\ res = None

\* line 21: keep the .csv files of the directory listing
ListSubmissions ==
    /\ pc = "list"
    /\ files' = SelectSeq(files, LAMBDA f : IsCsv(f.name))
    /\ pc' = "load"
    /\ UNCHANGED <<teams, nrec, cur, skResp, glResp, output, snapshot, latest, arg, res>>

\* lines 23-65: one iteration of the submission loop
LoadSubmission ==
    /\ pc = "load"
    /\ files # <<>>
    /\ teams' = Append(teams, NewTeam(Head(files)))
    /\ files' = Tail(files)
    /\ UNCHANGED <<pc, nrec, cur, skResp, glResp, output, snapshot, latest, arg, res>>

\* lines 72-74 up to the first record of the loop at line 118
FetchSkaters ==
    /\ pc = "load"
    /\ files = <<>>
    /\ \E kind \in ResponseKinds :
          /\ skResp' = kind
          /\ pc' = IF kind \in Raising THEN "aborted" ELSE "skaters"
    /\ nrec' = 0
    /\ UNCHANGED <<files, teams, cur, glResp, output, snapshot, latest, arg, res>>

\* lines 77-80 up to the first record of the loop at line 118
FetchGoalies ==
    /\ pc = "fetch_goalies"
    /\ \E kind \in ResponseKinds :
          /\ glResp' = kind
          /\ pc' = IF kind \in Raising THEN "aborted" ELSE "goalies"
    /\ nrec' = 0
    /\ UNCHANGED <<files, teams, cur, skResp, output, snapshot, latest, arg, res>>

Resp == IF pc = "skaters" THEN skResp ELSE glResp

\* lines 118-148: one iteration of the record loop.  player["stats"] raises
\* on a record without stats; unpacking the stats object that
\* assign_player_scores handed back raises unless it has exactly two keys.
ProcessRecord ==
    /\ pc \in {"skaters", "goalies"}
    /\ Resp = "list"
    /\ nrec < MaxRecords
    /\ \E player \in RecordPool :
          /\ cur' = Some(player)
          /\ IF ~player.stats.some
             THEN pc' = "aborted" /\ teams' = teams
             ELSE IF ~assign_player_scores(player.stats.v).tuple
             THEN /\ NumKeys(player.stats.v) # 2
                  /\ pc' = "aborted"
                  /\ teams' = teams
             ELSE /\ teams' = ScoreRecord(teams, player.stats.v)
                  /\ pc' = pc
    /\ nrec' = nrec + 1
    /\ UNCHANGED <<files, skResp, glResp, output, snapshot, latest, arg, res>>

\* lines 150-181: the record loop is over; the unmatched-player report
\* prints and changes nothing.
EndPass ==
    /\ pc \in {"skaters", "goalies"}
    /\ pc' = IF pc = "skaters" THEN "fetch_goalies" ELSE "sort"
    /\ UNCHANGED <<files, teams, nrec, cur, skResp, glResp, output, snapshot, latest, arg, res>>

\* line 187
SortLeaderboard ==
    /\ pc = "sort"
    /\ teams' = SortTeams(teams)
    /\ pc' = "build"
    /\ UNCHANGED <<files, nrec, cur, skResp, glResp, output, snapshot, latest, arg, res>>

\* lines 188-226
BuildOutput ==
    /\ pc = "build"
    /\ output' = Leaderboard(teams)
    /\ pc' = "write_snapshot"
    /\ UNCHANGED <<files, teams, nrec, cur, skResp, glResp, snapshot, latest, arg, res>>

\* lines 229-233
WriteSnapshot ==
    /\ pc = "write_snapshot"
    /\ snapshot' = Some(output)
    /\ pc' = "write_latest"
    /\ UNCHANGED <<files, teams, nrec, cur, skResp, glResp, output, latest, arg, res>>

\* lines 236-238
WriteLatest ==
    /\ pc = "write_latest"
    /\ latest' = Some("scores")
    /\ pc' = "done"
    /\ UNCHANGED <<files, teams, nrec, cur, skResp, glResp, output, snapshot, arg, res>>

Next ==
    \/ ListSubmissions
    \/ LoadSubmission
    \/ FetchSkaters
    \/ ProcessRecord
    \/ EndPass
    \/ FetchGoalies
    \/ SortLeaderboard
    \/ BuildOutput
    \/ WriteSnapshot
    \/ WriteLatest

Spec == Init /\ [][Next]_vars

\* ------------------------------------- assign_player_scores on its own
PositionCodes == ForwardCodes \cup DefenseCodes \cup {"G", "", "X", "W", "GK"}

OptStat == {None} \cup {Some(n) : n \in 0..MaxStat}

InitScore ==
    /\ pc = "score"
    /\ arg \in {Some(Stats(p, <<>>, <<>>, g, a, sv, w, so, l, None)) :
                   p \in PositionCodes, g \in OptStat, a \in OptStat,
                   sv \in OptStat, w \in OptStat, so \in OptStat, l \in OptStat}
    /\ res = None
    /\ files = <<>>
    /\ teams = <<>>
    /\ nrec = 0
    /\ cur = None
    /\ skResp = "none"
    /\ glResp = "none"
    /\ output = <<>>
    /\ snapshot = None
    /\ latest = None

ApplyScore ==
    /\ pc = "score"
    /\ res' = Some(assign_player_scores(arg.v))
    /\ pc' = "scored"
    /\ UNCHANGED <<files, teams, nrec, cur, skResp, glResp, output, snapshot, latest, arg>>

NextScore == ApplyScore

SpecScore == InitScore /\ [][NextScore]_vars

\* --------------------------------------------------------- clean on its own
CleanChars == {"a", "A", "E_acute", " ", "-", "'", "\t"}

RECURSIVE Strings(_)
Strings(n) ==
    IF n = 0 THEN {<<>>}
    ELSE Strings(n - 1) \cup
         {Append(s, c) : s \in {s \in Strings(n - 1) : Len(s) = n - 1},
                         c \in CleanChars}

InitClean ==
    /\ pc = "clean"
    /\ arg \in {Some(s) : s \in Strings(MaxLen)}
    /\ res = <<>>
    /\ files = <<>>
    /\ teams = <<>>
    /\ nrec = 0
    /\ cur = None
    /\ skResp = "none"
    /\ glResp = "none"
    /\ output = <<>>
    /\ snapshot = None
    /\ latest = None

\* res collects clean(arg), then clean of that
Normalize ==
    /\ pc = "clean"
    /\ Len(res) < 2
    /\ res' = Append(res, clean(IF res = <<>> THEN arg.v ELSE res[Len(res)]))
    /\ UNCHANGED <<pc, files, teams, nrec, cur, skResp, glResp, output, snapshot, latest, arg>>

NextClean == Normalize

SpecClean == InitClean /\ [][NextClean]_vars

\* --------------------------------------------------------------- claims
Passes == {"skaters", "goalies"}

OrZero(opt) == IF opt.some THEN opt.v ELSE 0

RECURSIVE SumScores(_)
SumScores(players) ==
    IF players = <<>> THEN 0
    ELSE OrZero(Head(players).score) + SumScores(Tail(players))

RecordStep == pc \in Passes /\ nrec' = nrec + 1 /\ cur'.some /\ cur'.v.stats.some

StepStats == cur'.v.stats.v

SameIgnoringCase(a, b) == Lower(a) = Lower(b)

\* C5: a goalie record with a competitor identifier adds its score to the
\* goalie score and the total of every team whose goalie country is that
\* identifier up to letter case, and sets their goalie-found flag; every
\* other team and every roster stay as they were.  A goalie record without
\* an identifier changes nothing.
C5_GoalieBroadcast ==
    [][ (RecordStep /\ StepStats.position = "G") =>
          LET score == assign_player_scores(StepStats).score
          IN  /\ Len(teams') = Len(teams)
              /\ pc' = pc
              /\ IF ~StepStats.competitor.some \/ StepStats.competitor.v = <<>>
                 THEN teams' = teams
                 ELSE \A i \in 1..Len(teams) :
                        IF /\ teams[i].country_goalie.some
                           /\ SameIgnoringCase(teams[i].country_goalie.v,
                                                StepStats.competitor.v)
                        THEN /\ teams'[i].score = teams[i].score + score
                             /\ teams'[i].goalie_score =
                                    Some(OrZero(teams[i].goalie_score) + score)
                             /\ teams'[i].goalie_found
                             /\ teams'[i].players = teams[i].players
                             /\ teams'[i].country_goalie = teams[i].country_goalie
                             /\ teams'[i].submission = teams[i].submission
                        ELSE teams'[i] = teams[i] ]_vars

\* The record for "USA" has credited two teams that picked "usa", next to
\* a team with another pick
C5_Witness ==
    /\ pc \in Passes
    /\ cur.some /\ cur.v.stats.some
    /\ cur.v.stats.v.position = "G"
    /\ cur.v.stats.v.competitor = Some(<<"U", "S", "A">>)
    /\ \E i, j \in 1..Len(teams) :
          /\ i # j
          /\ teams[i].goalie_found /\ teams[j].goalie_found
          /\ teams[i].goalie_score.v = 6500

\* C6: a Forward or Defense record adds its score to the roster entry
\* stored under the record's normalized first+last name, and to the total,
\* of every team that has such an entry, and sets the entry's found flag;
\* other entries, teams without the key and all goalie fields stay.
C6_SkaterBroadcast ==
    [][ (RecordStep /\ StepStats.position \in ForwardCodes \cup DefenseCodes) =>
          LET score == assign_player_scores(StepStats).score
              key == clean(StepStats.firstName \o StepStats.lastName)
          IN  /\ Len(teams') = Len(teams)
              /\ pc' = pc
              /\ \A i \in 1..Len(teams) :
                    IF \E j \in 1..Len(teams[i].players) : teams[i].players[j].key = key
                    THEN /\ teams'[i].score = teams[i].score + score
                         /\ Len(teams'[i].players) = Len(teams[i].players)
                         /\ \A j \in 1..Len(teams[i].players) :
                               IF teams[i].players[j].key = key
                               THEN teams'[i].players[j] =
                                      [teams[i].players[j] EXCEPT
                                          !.score = Some(OrZero(@) + score),
                                          !.found = TRUE]
                               ELSE teams'[i].players[j] = teams[i].players[j]
                         /\ teams'[i].goalie_score = teams[i].goalie_score
                         /\ teams'[i].goalie_found = teams[i].goalie_found
                         /\ teams'[i].country_goalie = teams[i].country_goalie
                         /\ teams'[i].submission = teams[i].submission
                    ELSE teams'[i] = teams[i] ]_vars

\* The same forward record has been credited twice to two teams
C6_Witness ==
    /\ pc \in Passes
    /\ cur.some /\ cur.v.stats.some
    /\ cur.v.stats.v.position = "F"
    /\ \E i, j \in 1..Len(teams) :
          /\ i # j
          /\ \E k \in 1..Len(teams[i].players) :
                teams[i].players[k].score = Some(7000)
          /\ \E k \in 1..Len(teams[j].players) :
                teams[j].players[k].score = Some(7000)
          /\ \E k \in 1..Len(teams[j].players) : ~teams[j].players[k].found

\* C2 (as claimed): a record whose position is none of the Forward, Defense
\* or Goalie codes is ignored: no team changes, nothing is raised and the
\* record loop goes on.
C2_UnscoredIgnored ==
    [][ (RecordStep /\ StepStats.position \notin ForwardCodes \cup DefenseCodes \cup {"G"})
          => (teams' = teams /\ pc' = pc) ]_vars

\* C3 (as claimed): once a fetch has failed, or has come back with something
\* that is not JSON or not a list of well-formed records, neither the
\* snapshot nor latest.json is ever written.
C3_NoOutputAfterBadFetch ==
    (\/ skResp \in NotRecordList
     \/ glResp \in NotRecordList
     \/ cur.some /\ ~cur.v.stats.some)
        => (snapshot = None /\ latest = None)

\* C7 (as claimed): in every emitted breakdown the rows with a positive
\* score come first in descending order, then the rows with score zero, and
\* the rows with an absent score come after every row that has a score.
C7_AbsentLast ==
    \A t \in 1..Len(output) :
        \A i, j \in 1..Len(output[t].players) :
            LET a == output[t].players[i].score
                b == output[t].players[j].score
            IN  i < j =>
                  /\ (b.some /\ b.v > 0) => (a.some /\ a.v >= b.v)
                  /\ (b.some /\ b.v = 0) => (a.some /\ a.v >= 0)
                  /\ b.some => a.some

Written == {"write_snapshot", "write_latest", "done"}

PosIn(ts, t) == CHOOSE k \in 1..Len(ts) : ts[k] = t

\* C9: the sort puts the teams in descending total score and keeps teams
\* of equal score in the order they were loaded; the leaderboard lists the
\* teams in that order with rank = position, so the ranks are 1..n.
C9_StableRanking ==
    /\ [][ (pc = "sort" /\ pc' = "build") =>
             /\ Len(teams') = Len(teams)
             /\ \A i \in 1..Len(teams) : \E k \in 1..Len(teams') : teams'[k] = teams[i]
             /\ \A k, l \in 1..Len(teams') :
                   k < l => teams'[k].score >= teams'[l].score
             /\ \A i, j \in 1..Len(teams) :
                   (i < j /\ teams[i].score = teams[j].score)
                       => PosIn(teams', teams[i]) < PosIn(teams', teams[j]) ]_vars
    /\ [](pc \in Written =>
             /\ Len(output) = Len(teams)
             /\ \A i \in 1..Len(output) :
                   /\ output[i].rank = i
                   /\ output[i].name = teams[i].submission
                   /\ output[i].score = teams[i].score
             /\ \A i, j \in 1..Len(output) :
                   i < j => output[i].score >= output[j].score)

\* A written leaderboard of two teams tied on a positive score
C9_Witness ==
    /\ pc = "done"
    /\ Len(output) = 2
    /\ output[1].score = output[2].score
    /\ output[1].score > 0
    /\ output[1].rank = 1 /\ output[2].rank = 2

AbsentRows(rows) == Cardinality({i \in 1..Len(rows) : ~rows[i].score.some})

Unfound(team) ==
    Cardinality({j \in 1..Len(team.players) : ~team.players[j].found})
      + (IF team.country_goalie.some /\ team.country_goalie.v # <<>>
            /\ ~team.goalie_found THEN 1 ELSE 0)

\* C10: a roster entry is found exactly when it has a score, a team's
\* goalie is found exactly when the team has a goalie score; a flag once set
\* stays set and a score once present stays present; the leaderboard has an
\* absent score for exactly the entries that were never found.
C10_FoundIffScored ==
    /\ [](\A i \in 1..Len(teams) :
             /\ teams[i].goalie_found <=> teams[i].goalie_score.some
             /\ \A j \in 1..Len(teams[i].players) :
                   teams[i].players[j].found <=> teams[i].players[j].score.some)
    /\ [][ \A i \in 1..Len(teams) : \E k \in 1..Len(teams') :
             /\ teams'[k].submission = teams[i].submission
             /\ teams[i].goalie_found => teams'[k].goalie_found
             /\ teams[i].goalie_score.some => teams'[k].goalie_score.some
             /\ \A j \in 1..Len(teams[i].players) :
                   /\ teams[i].players[j].found => teams'[k].players[j].found
                   /\ teams[i].players[j].score.some => teams'[k].players[j].score.some ]_vars
    /\ [](pc \in Written =>
             \A i \in 1..Len(output) :
                 /\ AbsentRows(output[i].players) = Unfound(teams[i])
                 /\ \A j \in 1..Len(teams[i].players) :
                       \E r \in 1..Len(output[i].players) :
                           /\ output[i].players[r].name =
                                 Title(teams[i].players[j].first_name) \o <<" ">>
                                    \o Title(teams[i].players[j].last_name)
                           /\ output[i].players[r].score.some
                                 <=> teams[i].players[j].found)

\* A written leaderboard of a team with a found entry, an entry never found
\* and a goalie never found
C10_Witness ==
    /\ pc = "done"
    /\ \E i \in 1..Len(teams) :
          /\ \E j \in 1..Len(teams[i].players) : teams[i].players[j].found
          /\ \E j \in 1..Len(teams[i].players) : ~teams[i].players[j].found
          /\ teams[i].country_goalie.some /\ ~teams[i].goalie_found
          /\ AbsentRows(output[i].players) = 2

\* C4 (as claimed): assign_player_scores resolves Goalie exactly for the
\* position "G", Forward exactly for C, RW, LW, F, Winger and Defense
\* exactly for D, LD, RD, with the bucket's formula as the score (a missing
\* field counting as 0); every other position, the empty string included,
\* resolves no bucket.
C4_BucketByPosition ==
    pc = "scored" =>
        LET p == arg.v.position
            st == arg.v
            r == res.v
        IN  /\ (r.tuple /\ r.position = "G") <=> p = "G"
            /\ (r.tuple /\ r.position = "F") <=> p \in {"C", "RW", "LW", "F", "Winger"}
            /\ (r.tuple /\ r.position = "D") <=> p \in {"D", "LD", "RD"}
            /\ ~r.tuple <=> p \notin {"G", "C", "RW", "LW", "F", "Winger", "D", "LD", "RD"}
            /\ (r.tuple /\ r.position = "F") =>
                   r.score = 1500 * OrZero(st.goals) + 1000 * OrZero(st.assists)
            /\ (r.tuple /\ r.position = "D") =>
                   r.score = 3000 * OrZero(st.goals) + 2000 * OrZero(st.assists)
            /\ (r.tuple /\ r.position = "G") =>
                   r.score = 150 * OrZero(st.saves) + 5000 * OrZero(st.wins)
                               + 5000 * OrZero(st.shutouts) - 3000 * OrZero(st.losses)

\* C8 (as claimed): clean is idempotent, clean(clean(s)) = clean(s), on
\* strings of letters of either case, accented letters, spaces, hyphens,
\* apostrophes and tabs.
C8_Idempotent == Len(res) = 2 => res[2] = res[1]

====
